---- MODULE Spec2Model ----
(***************************************************************************)
(* Model of the glitched-analytics plugin (src/main.ts): the ribbon        *)
(* callback, the options modal, runVideoReport / fetchReportDetails with   *)
(* their promise callbacks, and the pure helpers shouldAuthenticate,       *)
(* validateOptions and formatReport.                                       *)
(*                                                                         *)
(* Text is a sequence of segments.  Every whitespace character ("\n",      *)
(* "\t", " ") that can sit at the edge of a string is a segment of its     *)
(* own, so String.prototype.trim is modelled on what it removes.  A date   *)
(* field is a sequence of one-character strings, so that the date parse    *)
(* reads digits.                                                           *)
(***************************************************************************)
EXTENDS Integers, Sequences, FiniteSets, TLC

VARIABLES
    settings,               \* this.settings (oauth2KeysLocation)
    heap,                   \* the VideoReportOptions objects, by reference
    previousReportOptions,  \* this.previousReportOptions: a reference into heap
    modal,                  \* the VideoReportOptionsModal that is open, if any
    oauth2Client,           \* this.oauth2Client
    now,                    \* wall clock, epoch milliseconds
    runs,                   \* the runs of runVideoReport whose promise is pending
    lastCall,               \* the handler that made the last step
    shown,                  \* the modal texts that handler opened, in order
    sentQuery,              \* the request that handler gave to reports.query
    inserted,               \* the texts that handler inserted into the editor
    fnArg,                  \* argument of a function applied on its own
    fnResult                \* its result

vars == <<settings, heap, previousReportOptions, modal, oauth2Client, now, runs,
          lastCall, shown, sentQuery, inserted, fnArg, fnResult>>

---------------------------------------------------------------------------
(* Bounds of the model *)

MaxPending == 2
MaxTicks == 1
StartTime == 10000
ClockStep == 700
MaxCols == 2
MaxRows == 2

(* getUTCMilliseconds() is the millisecond part of the current second *)
MsPerSecond == 1000

(* A JavaScript value that may be undefined *)
Undefined == [defined |-> FALSE]
Defined(v) == [defined |-> TRUE, value |-> v]
LF == "\n"
TAB == "\t"
SP == " "

---------------------------------------------------------------------------
(* Text helpers *)

IsWhitespace(seg) == seg \in {LF, TAB, SP}

RECURSIVE TrimStart(_)
TrimStart(t) ==
    IF t = <<>> THEN <<>>
    ELSE IF IsWhitespace(Head(t)) THEN TrimStart(Tail(t))
    ELSE t

RECURSIVE TrimEnd(_)
TrimEnd(t) ==
    IF t = <<>> THEN <<>>
    ELSE IF IsWhitespace(t[Len(t)]) THEN TrimEnd(SubSeq(t, 1, Len(t) - 1))
    ELSE t

(* String.prototype.trim *)
Trim(t) == TrimEnd(TrimStart(t))

---------------------------------------------------------------------------
(* moment(input, "YYYY-MM-DD").isValid(), the non-strict parse: each of the  *)
(* tokens YYYY, MM, DD takes the first run of digits left in the input (at   *)
(* most 4, 2 and 2 of them), a "-" of the format skips to after the next "-" *)
(* of the input if there is one; the date is valid when a token was parsed   *)
(* and neither the month nor the day of month overflows.                     *)

Digits == <<"0", "1", "2", "3", "4", "5", "6", "7", "8", "9">>

IsDigit(c) == \E d \in 1..Len(Digits) : Digits[d] = c

DigitOf(c) == (CHOOSE d \in 1..Len(Digits) : Digits[d] = c) - 1

RECURSIVE SkipToDigit(_)
SkipToDigit(s) ==
    IF s = <<>> \/ IsDigit(Head(s)) THEN s ELSE SkipToDigit(Tail(s))

RECURSIVE TakeDigits(_, _, _, _)
TakeDigits(s, maxDigits, value, count) ==
    IF s # <<>> /\ count < maxDigits /\ IsDigit(Head(s))
    THEN TakeDigits(Tail(s), maxDigits, value * 10 + DigitOf(Head(s)), count + 1)
    ELSE [found |-> count > 0, value |-> value, digits |-> count, rest |-> s]

MatchNumber(s, maxDigits) ==
    LET at == SkipToDigit(s)
    IN  IF at = <<>>
        THEN [found |-> FALSE, value |-> 0, digits |-> 0, rest |-> s]
        ELSE TakeDigits(at, maxDigits, 0, 0)

RECURSIVE SkipLiteral(_, _, _)
SkipLiteral(s, lit, whole) ==
    IF s = <<>> THEN whole
    ELSE IF Head(s) = lit THEN Tail(s)
    ELSE SkipLiteral(Tail(s), lit, whole)

IsLeapYear(y) == (y % 4 = 0 /\ y % 100 # 0) \/ y % 400 = 0

DaysInMonth(y, m) ==
    IF m = 2 THEN (IF IsLeapYear(y) THEN 29 ELSE 28)
    ELSE IF m \in {4, 6, 9, 11} THEN 30
    ELSE 31

ParseTwoDigitYear(v) == v + (IF v > 68 THEN 1900 ELSE 2000)

MomentIsValid(input) ==
    LET y  == MatchNumber(input, 4)
        s1 == SkipLiteral(y.rest, "-", y.rest)
        m  == MatchNumber(s1, 2)
        s2 == SkipLiteral(m.rest, "-", m.rest)
        d  == MatchNumber(s2, 2)
        year  == IF y.digits = 2 THEN ParseTwoDigitYear(y.value) ELSE y.value
        month == IF m.found THEN m.value ELSE 1
        day   == IF d.found THEN d.value ELSE 1
        empty == ~y.found /\ ~m.found /\ ~d.found
        overflowMonth == month < 1 \/ month > 12
        overflowDate  == ~overflowMonth /\ (day < 1 \/ day > DaysInMonth(year, month))
    IN  ~empty /\ ~overflowMonth /\ ~overflowDate

---------------------------------------------------------------------------
(* validateOptions *)

FieldViolation(field) == <<LF, TAB, field, ": not set correctly.">>

validateOptions_SkipsVideoId(options) ==
    LET v1 == IF ~MomentIsValid(options.startDate)
              THEN FieldViolation("startDate") ELSE <<>>
        v2 == IF ~MomentIsValid(options.endDate)
              THEN v1 \o FieldViolation("endDate") ELSE v1
        v3 == IF options.metrics = ""
              THEN v2 \o FieldViolation("metrics") ELSE v2
        valid == v3 = <<>>
    IN  IF valid
        THEN [valid |-> TRUE, violations |-> Undefined]
        ELSE [valid |-> FALSE, violations |-> Defined(Trim(v3))]

validateOptions(options) ==
    LET bad1 == ~MomentIsValid(options.startDate)
        v1 == IF bad1 THEN FieldViolation("startDate") ELSE <<>>
        bad2 == ~MomentIsValid(options.endDate)
        v2 == IF bad2 THEN v1 \o FieldViolation("endDate") ELSE v1
        bad3 == options.metrics = ""
        v3 == IF bad3 THEN v2 \o FieldViolation("metrics") ELSE v2
        bad4 == options.videoId = ""
        v4 == IF bad4 THEN v3 \o FieldViolation("videoId") ELSE v3
        valid == ~bad1 /\ ~bad2 /\ ~bad3 /\ ~bad4
    IN  IF valid
        THEN [valid |-> TRUE, violations |-> Undefined]
        ELSE [valid |-> FALSE, violations |-> Defined(Trim(v4))]

---------------------------------------------------------------------------
(* formatReport.  Reading data.columnHeaders[j].name with j beyond the     *)
(* headers throws a TypeError, which leaves the function.                    *)

ReportLine(columnName, dataValue) == <<columnName, "::", SP, ToString(dataValue), LF>>

RECURSIVE FormatCells(_, _, _, _)
FormatCells(data, row, j, acc) ==
    IF acc.threw \/ j > Len(row) THEN acc
    ELSE IF j > Len(data.columnHeaders)
         THEN [threw |-> TRUE, text |-> acc.text]
         ELSE FormatCells(data, row, j + 1,
                  [threw |-> FALSE,
                   text |-> acc.text \o ReportLine(data.columnHeaders[j].name, row[j])])

RECURSIVE FormatRows(_, _, _)
FormatRows(data, i, acc) ==
    IF acc.threw \/ i > Len(data.rows) THEN acc
    ELSE FormatRows(data, i + 1, FormatCells(data, data.rows[i], 1, acc))

formatReport_NoTrim(data) ==
    FormatRows(data, 1, [threw |-> FALSE, text |-> <<>>])

formatReport(data) ==
    LET frontMattered == FormatRows(data, 1, [threw |-> FALSE, text |-> <<>>])
    IN  IF frontMattered.threw
        THEN [threw |-> TRUE, text |-> <<>>]
        ELSE [threw |-> FALSE, text |-> Trim(frontMattered.text)]

---------------------------------------------------------------------------
(* Values the environment supplies *)

Today == <<"2", "0", "2", "4", "-", "0", "1", "-", "1", "5">>
MonthThirteen == <<"2", "0", "2", "4", "-", "1", "3", "-", "0", "1">>
FebruaryThirty == <<"2", "0", "2", "3", "-", "0", "2", "-", "3", "0">>
LeapDay == <<"2", "0", "2", "4", "-", "0", "2", "-", "2", "9">>
Slashed == <<"1", "5", "/", "0", "1", "/", "2", "0", "2", "4">>
Letters == <<"a", "b", "c">>
Blank == <<>>

DefaultMetrics == "views,comments,likes"

(* What the user types into the form while a report may be running *)
FormDates == {Today, MonthThirteen}
FormMetrics == {DefaultMetrics, ""}
FormVideoIds == {"vid1", ""}

(* What validateOptions is tried on *)
SampleDates == {Today, MonthThirteen, FebruaryThirty, LeapDay, Slashed, Letters, Blank}
SampleMetrics == {DefaultMetrics, "views", ""}
SampleVideoIds == {"vid1", ""}

(* Key-file paths, as path segments; only KeysPath exists on disk *)
NoPath == <<>>
KeysPath == <<"keys.json">>
DottedKeysPath == <<".", "keys.json">>
MissingPath == <<"missing.json">>
TypedPaths == {NoPath, KeysPath, DottedKeysPath, MissingPath}
ExistingPaths == {KeysPath}

(* path.normalize, on these paths: "." segments are dropped *)
Normalize(p) == SelectSeq(p, LAMBDA seg : seg # ".")

existsSync(p) == p \in ExistingPaths

(* Reports the query collaborator answers with *)
ColumnNames == {"views", "likes"}
CellValues == {0, 10}

SeqsUpTo(S, n) == UNION {[1..k -> S] : k \in 0..n}

Headers(n) == {[i \in 1..Len(names) |-> [name |-> names[i]]] : names \in SeqsUpTo(ColumnNames, n)}

Reports ==
    {[columnHeaders |-> h, rows |-> r] :
        h \in Headers(MaxCols), r \in SeqsUpTo(SeqsUpTo(CellValues, MaxCols), MaxRows)}

WellFormed(data) == \A i \in 1..Len(data.rows) : Len(data.rows[i]) = Len(data.columnHeaders)

OneCell == [columnHeaders |-> <<[name |-> "views"]>>, rows |-> <<<<10>>>>]
LongRow == [columnHeaders |-> <<[name |-> "views"]>>, rows |-> <<<<10, 0>>>>]
AnsweredReports == {OneCell, LongRow}

AuthErrors == {"invalid_grant"}
QueryErrors == {"quotaExceeded"}

(* Lifetimes of the credentials the authorization collaborator returns *)
Lifetimes == {500}

---------------------------------------------------------------------------
(* State after construction and onload *)

NoClient == [cached |-> FALSE]
NoModal == [open |-> FALSE]
NoQuery == [sent |-> FALSE]
NoCall == [op |-> "onload"]
NoValue == [set |-> FALSE]

DefaultOptions ==
    [metrics |-> DefaultMetrics, endDate |-> Today, startDate |-> Today, videoId |-> ""]

(* everything but the settings and the function under test *)
Constructed ==
    /\ heap = <<DefaultOptions>>
    /\ previousReportOptions = 1
    /\ modal = NoModal
    /\ oauth2Client = NoClient
    /\ now = StartTime
    /\ runs = <<>>
    /\ lastCall = NoCall
    /\ shown = <<>>
    /\ sentQuery = NoQuery
    /\ inserted = <<>>

Init ==
    /\ settings \in [oauth2KeysLocation : {NoPath, KeysPath, MissingPath}]
    /\ Constructed
    /\ fnArg = NoValue
    /\ fnResult = NoValue

---------------------------------------------------------------------------
(* Error modals *)

MisconfiguredText == <<"OAUth2 Key location not defined!">>

ErrorText(errorMessage) == <<"ERROR:", LF, SP>> \o errorMessage

OpenModal(text) == shown' = <<text>>

NoModalOpened == shown' = <<>>

NoQuerySent == sentQuery' = NoQuery

NoInsert == inserted' = <<>>

---------------------------------------------------------------------------
(* shouldAuthenticate *)

getUTCMilliseconds == now % MsPerSecond

shouldAuthenticate ==
    IF ~oauth2Client.cached THEN TRUE
    ELSE LET expiry_date == oauth2Client.credentials.expiry_date
         IN  IF ~expiry_date.defined \/ expiry_date.value = 0 THEN TRUE
             ELSE getUTCMilliseconds > expiry_date.value

---------------------------------------------------------------------------
(* runVideoReport and fetchReportDetails *)

QueryRequest(options) ==
    [sent |-> TRUE,
     endDate |-> options.endDate,
     startDate |-> options.startDate,
     metrics |-> options.metrics,
     ids |-> "channel==MINE",
     filters |-> <<"video==", options.videoId>>]

(* a run of runVideoReport that is waiting for authenticate() *)
AuthorizingRun(options) ==
    [options |-> options, submitted |-> heap[options], needAuth |-> TRUE,
     status |-> "authorizing", events |-> <<>>]

(* a run that went to fetchReportDetails at once *)
QueryingRun(options) ==
    [options |-> options, submitted |-> heap[options], needAuth |-> FALSE,
     status |-> "querying", events |-> <<"request">>]

runVideoReport(options) ==
    /\ Len(runs) < MaxPending
    /\ IF shouldAuthenticate
       THEN /\ runs' = Append(runs, AuthorizingRun(options))
            /\ NoQuerySent
       ELSE /\ runs' = Append(runs, QueryingRun(options))
            /\ sentQuery' = QueryRequest(heap[options])
    /\ NoInsert
    /\ UNCHANGED oauth2Client

---------------------------------------------------------------------------
(* The ribbon callback *)

(* the checks the callback makes before it opens the options modal *)
RibbonGuard_SkipsExistsCheck(view) ==
    LET oauthKeyLocation == settings.oauth2KeysLocation
    IN  IF ~view THEN "noView"
        ELSE IF oauthKeyLocation = <<>> THEN "misconfigured"
        ELSE "open"

RibbonGuard(view) ==
    LET oauthKeyLocation == settings.oauth2KeysLocation
    IN  IF ~view THEN "noView"
        ELSE IF oauthKeyLocation = <<>> THEN "misconfigured"
        ELSE IF ~existsSync(Normalize(oauthKeyLocation)) THEN "invalidLocation"
        ELSE "open"

(* the ribbon cannot be clicked while the options modal covers it *)
RibbonCallback(view) ==
    /\ ~modal.open
    /\ lastCall' = [op |-> "ribbon", view |-> view]
    /\ LET guard == RibbonGuard(view)
       IN  IF guard = "noView"
           THEN /\ NoModalOpened
                /\ UNCHANGED modal
           ELSE IF guard = "misconfigured"
           THEN /\ OpenModal(MisconfiguredText)
                /\ UNCHANGED modal
           ELSE IF guard = "invalidLocation"
           THEN /\ OpenModal(ErrorText(<<"Invalid Location: \"">>
                                          \o settings.oauth2KeysLocation))
                /\ UNCHANGED modal
           ELSE /\ NoModalOpened
                /\ modal' = [open |-> TRUE, result |-> previousReportOptions,
                             openedWith |-> heap[previousReportOptions]]
    /\ NoQuerySent
    /\ NoInsert
    /\ UNCHANGED <<settings, heap, previousReportOptions, oauth2Client, now, runs,
                   fnArg, fnResult>>

---------------------------------------------------------------------------
(* The options modal *)

(* onChange of one of the four text fields *)
FieldOnChange(field, value) ==
    /\ modal.open
    /\ heap[modal.result][field] # value
    /\ heap' = [heap EXCEPT ![modal.result][field] = value]
    /\ lastCall' = [op |-> "onChange"]
    /\ NoModalOpened
    /\ NoQuerySent
    /\ NoInsert
    /\ UNCHANGED <<settings, previousReportOptions, modal, oauth2Client, now, runs,
                   fnArg, fnResult>>

(* the modal is closed without Submit *)
ModalCancel ==
    /\ modal.open
    /\ modal' = NoModal
    /\ lastCall' = [op |-> "cancel"]
    /\ NoModalOpened
    /\ NoQuerySent
    /\ NoInsert
    /\ UNCHANGED <<settings, heap, previousReportOptions, oauth2Client, now, runs,
                   fnArg, fnResult>>

OnSubmit_RunsInvalid(result) ==
    LET validate == validateOptions(heap[result])
    IN  /\ previousReportOptions' = result
        /\ IF ~validate.valid
           THEN /\ OpenModal(ErrorText(<<"Options set incorrectly:", LF>>
                                          \o validate.violations.value))
                /\ runVideoReport(result)
           ELSE /\ runVideoReport(result)
                /\ NoModalOpened

(* the onSubmit callback given to the modal by the ribbon callback *)
OnSubmit(result) ==
    LET validate == validateOptions(heap[result])
    IN  /\ previousReportOptions' = result
        /\ IF ~validate.valid
           THEN /\ OpenModal(ErrorText(<<"Options set incorrectly:", LF>>
                                          \o validate.violations.value))
                /\ NoQuerySent
                /\ NoInsert
                /\ UNCHANGED <<oauth2Client, runs>>
           ELSE /\ runVideoReport(result)
                /\ NoModalOpened

(* the Submit button: this.close(); this.onSubmit(this.result) *)
SubmitClick ==
    /\ modal.open
    /\ modal' = NoModal
    /\ OnSubmit(modal.result)
    /\ lastCall' = [op |-> "submit"]
    /\ UNCHANGED <<settings, heap, now, fnArg, fnResult>>

---------------------------------------------------------------------------
(* The promise callbacks of runVideoReport and fetchReportDetails.  A run   *)
(* whose promise settled for the last time leaves runs; lastCall keeps it   *)
(* as it ended.                                                             *)

Credentials == {[expiry_date |-> Undefined]}
                 \cup {[expiry_date |-> Defined(now + l)] : l \in Lifetimes}

Without(seq, i) == SubSeq(seq, 1, i - 1) \o SubSeq(seq, i + 1, Len(seq))

(* authenticate() resolves: both .then callbacks run, the second one calls *)
(* fetchReportDetails, which reads the options object as it is now         *)
AuthResolve(i, credentials) ==
    LET client == [cached |-> TRUE, credentials |-> credentials]
    IN  /\ runs[i].status = "authorizing"
        /\ oauth2Client' = client
        /\ sentQuery' = QueryRequest(heap[runs[i].options])
        /\ runs' = [runs EXCEPT ![i] =
                       [@ EXCEPT !.status = "querying",
                                 !.events = @ \o <<"authorized", "request">>]]
        /\ lastCall' = [op |-> "authResolve", index |-> i, client |-> client]
        /\ NoModalOpened
        /\ NoInsert
        /\ UNCHANGED <<settings, heap, previousReportOptions, modal, now,
                       fnArg, fnResult>>

AuthReject_DropsClient(i, error) ==
    /\ runs[i].status = "authorizing"
    /\ runs' = Without(runs, i)
    /\ oauth2Client' = NoClient
    /\ lastCall' = [op |-> "authReject", error |-> error,
                    run |-> [runs[i] EXCEPT !.status = "authFailed"]]
    /\ NoModalOpened
    /\ NoQuerySent
    /\ NoInsert
    /\ UNCHANGED <<settings, heap, previousReportOptions, modal, now,
                   fnArg, fnResult>>

(* authenticate() rejects: the chain has no rejection handler *)
AuthReject(i, error) ==
    /\ runs[i].status = "authorizing"
    /\ runs' = Without(runs, i)
    /\ lastCall' = [op |-> "authReject", error |-> error,
                    run |-> [runs[i] EXCEPT !.status = "authFailed"]]
    /\ NoModalOpened
    /\ NoQuerySent
    /\ NoInsert
    /\ UNCHANGED <<settings, heap, previousReportOptions, modal, oauth2Client, now,
                   fnArg, fnResult>>

(* reports.query resolves: format, then insert; a throw of formatReport is *)
(* caught by the .catch of the same chain                                  *)
QueryResolve(i, metricsData) ==
    LET formatted == formatReport(metricsData)
    IN  /\ runs[i].status = "querying"
        /\ runs' = Without(runs, i)
        /\ IF formatted.threw
           THEN /\ OpenModal(ErrorText(<<"Retrieval failed: ", "TypeError">>))
                /\ lastCall' = [op |-> "queryResolve",
                                run |-> [runs[i] EXCEPT
                                            !.status = "formatFailed",
                                            !.events = Append(@, "response")]]
                /\ NoInsert
           ELSE /\ inserted' = <<formatted.text>>
                /\ lastCall' = [op |-> "queryResolve",
                                run |-> [runs[i] EXCEPT
                                            !.status = "done",
                                            !.events = @ \o <<"response", "insert">>]]
                /\ NoModalOpened
        /\ NoQuerySent
        /\ UNCHANGED <<settings, heap, previousReportOptions, modal, oauth2Client, now,
                       fnArg, fnResult>>

QueryReject_InsertsError(i, error) ==
    /\ runs[i].status = "querying"
    /\ runs' = Without(runs, i)
    /\ OpenModal(ErrorText(<<"Retrieval failed: ", error>>))
    /\ inserted' = <<<<"Retrieval failed: ", error>>>>
    /\ lastCall' = [op |-> "queryReject", error |-> error,
                    run |-> [runs[i] EXCEPT !.status = "queryFailed"]]
    /\ NoQuerySent
    /\ UNCHANGED <<settings, heap, previousReportOptions, modal, oauth2Client, now,
                   fnArg, fnResult>>

(* reports.query rejects *)
QueryReject(i, error) ==
    /\ runs[i].status = "querying"
    /\ runs' = Without(runs, i)
    /\ OpenModal(ErrorText(<<"Retrieval failed: ", error>>))
    /\ lastCall' = [op |-> "queryReject", error |-> error,
                    run |-> [runs[i] EXCEPT !.status = "queryFailed"]]
    /\ NoQuerySent
    /\ NoInsert
    /\ UNCHANGED <<settings, heap, previousReportOptions, modal, oauth2Client, now,
                   fnArg, fnResult>>

---------------------------------------------------------------------------
(* The settings tab and the clock *)

(* onChange of the OAuth2 Keys setting; like the ribbon, the settings tab   *)
(* is out of reach while the options modal is open                          *)
SettingsOnChange(value) ==
    /\ ~modal.open
    /\ Len(value) > 0
    /\ settings' = [settings EXCEPT !.oauth2KeysLocation = Normalize(value)]
    /\ settings' # settings
    /\ lastCall' = [op |-> "settings"]
    /\ NoModalOpened
    /\ NoQuerySent
    /\ NoInsert
    /\ UNCHANGED <<heap, previousReportOptions, modal, oauth2Client, now, runs,
                   fnArg, fnResult>>

Tick ==
    /\ now + ClockStep <= StartTime + MaxTicks * ClockStep
    /\ now' = now + ClockStep
    /\ lastCall' = [op |-> "tick"]
    /\ NoModalOpened
    /\ NoQuerySent
    /\ NoInsert
    /\ UNCHANGED <<settings, heap, previousReportOptions, modal, oauth2Client, runs,
                   fnArg, fnResult>>

---------------------------------------------------------------------------

Next ==
    \/ \E view \in BOOLEAN : RibbonCallback(view)
    \/ \E value \in FormDates : FieldOnChange("startDate", value)
    \/ \E value \in FormDates : FieldOnChange("endDate", value)
    \/ \E value \in FormMetrics : FieldOnChange("metrics", value)
    \/ \E value \in FormVideoIds : FieldOnChange("videoId", value)
    \/ ModalCancel
    \/ SubmitClick
    \/ \E i \in DOMAIN runs : \E c \in Credentials : AuthResolve(i, c)
    \/ \E i \in DOMAIN runs : \E e \in AuthErrors : AuthReject(i, e)
    \/ \E i \in DOMAIN runs : \E r \in AnsweredReports : QueryResolve(i, r)
    \/ \E i \in DOMAIN runs : \E e \in QueryErrors : QueryReject(i, e)
    \/ \E value \in TypedPaths : SettingsOnChange(value)
    \/ Tick

Spec == Init /\ [][Next]_vars

---------------------------------------------------------------------------
(* validateOptions and formatReport on their own: the argument is drawn by *)
(* the initial state, the step applies the function                        *)

SampleOptions ==
    [startDate : SampleDates, endDate : SampleDates,
     metrics : SampleMetrics, videoId : SampleVideoIds]

InitValidate ==
    /\ settings = [oauth2KeysLocation |-> KeysPath]
    /\ Constructed
    /\ fnArg \in {[set |-> TRUE, value |-> o] : o \in SampleOptions}
    /\ fnResult = NoValue

ApplyValidate ==
    /\ ~fnResult.set
    /\ fnResult' = [set |-> TRUE, value |-> validateOptions(fnArg.value)]
    /\ UNCHANGED <<settings, heap, previousReportOptions, modal, oauth2Client, now,
                   runs, lastCall, shown, sentQuery, inserted, fnArg>>

SpecValidate == InitValidate /\ [][ApplyValidate]_vars

InitFormat ==
    /\ settings = [oauth2KeysLocation |-> KeysPath]
    /\ Constructed
    /\ fnArg \in {[set |-> TRUE, value |-> r] : r \in Reports}
    /\ fnResult = NoValue

ApplyFormat ==
    /\ ~fnResult.set
    /\ fnResult' = [set |-> TRUE, value |-> formatReport(fnArg.value)]
    /\ UNCHANGED <<settings, heap, previousReportOptions, modal, oauth2Client, now,
                   runs, lastCall, shown, sentQuery, inserted, fnArg>>

SpecFormat == InitFormat /\ [][ApplyFormat]_vars

---------------------------------------------------------------------------
(* Reading a text back as lines *)

RECURSIVE SplitLines(_, _, _)
SplitLines(text, line, lines) ==
    IF text = <<>> THEN Append(lines, line)
    ELSE IF Head(text) = LF THEN SplitLines(Tail(text), <<>>, Append(lines, line))
    ELSE SplitLines(Tail(text), Append(line, Head(text)), lines)

(* the lines of a text; the empty text has none *)
Lines(text) == IF text = <<>> THEN <<>> ELSE SplitLines(text, <<>>, <<>>)

EdgesNotBlank(text) ==
    text # <<>> => ~IsWhitespace(text[1]) /\ ~IsWhitespace(text[Len(text)])

---------------------------------------------------------------------------
(* The fields of the options that fail validation, in the order of the      *)
(* checks                                                                   *)

FieldOrder == <<"startDate", "endDate", "metrics", "videoId">>

Acceptable(options, field) ==
    IF field \in {"startDate", "endDate"} THEN MomentIsValid(options[field])
    ELSE options[field] # ""

FailingFields(options) == SelectSeq(FieldOrder, LAMBDA f : ~Acceptable(options, f))

ViolationLinesFor(options) ==
    [k \in 1..Len(FailingFields(options)) |->
        <<FailingFields(options)[k], ": not set correctly.">>]

(* the violation text as the error modal shows it *)
RECURSIVE JoinViolations(_)
JoinViolations(fields) ==
    IF fields = <<>> THEN <<>>
    ELSE IF Len(fields) = 1 THEN <<fields[1], ": not set correctly.">>
    ELSE <<fields[1], ": not set correctly.", LF, TAB>> \o JoinViolations(Tail(fields))

---------------------------------------------------------------------------
(* Runs and their events *)

FullOrder(run) ==
    IF run.needAuth THEN <<"authorized", "request", "response", "insert">>
    ELSE <<"request", "response", "insert">>

IsPrefix(a, b) == Len(a) <= Len(b) /\ a = SubSeq(b, 1, Len(a))

Inserted(run) == \E k \in DOMAIN run.events : run.events[k] = "insert"

(* the last step settled a run for good; lastCall.run is that run *)
EndsARun == lastCall.op \in {"authReject", "queryResolve", "queryReject"}

(* the last step was a valid submission, which started the newest run *)
StartsARun == lastCall.op = "submit" /\ shown = <<>>

HasKnownExpiry ==
    /\ oauth2Client.cached
    /\ oauth2Client.credentials.expiry_date.defined
    /\ oauth2Client.credentials.expiry_date.value # 0

(* what a stopped ribbon callback leaves alone *)
FlowStopped ==
    /\ ~modal'.open
    /\ ~sentQuery'.sent
    /\ inserted' = <<>>
    /\ UNCHANGED <<settings, heap, previousReportOptions, oauth2Client, runs>>

---------------------------------------------------------------------------

(* C1: the step on which the authorization or the query collaborator fails  *)
(* for a run shows exactly one error modal, which carries the failure       *)
(* detail, and the run ends there (nothing is retried).                     *)
FailedRunShowsOneError ==
    lastCall.op \in {"authReject", "queryReject"} =>
        /\ lastCall.run.status \in {"authFailed", "queryFailed"}
        /\ shown = <<ErrorText(<<"Retrieval failed: ", lastCall.error>>)>>

(* C2: shouldAuthenticate is true when no credential is cached, when the    *)
(* cached credential has no known expiry, or when now > expiry, and false   *)
(* otherwise.                                                               *)
ShouldAuthenticateFollowsExpiry ==
    shouldAuthenticate =
        (~HasKnownExpiry \/ now > oauth2Client.credentials.expiry_date.value)

(* C3: a run starts with the authorization exactly when shouldAuthenticate  *)
(* asks for it and with the query request otherwise; its events are a       *)
(* prefix of authorized, request, response, insert (without authorized when *)
(* no re-authorization was needed), whole exactly when the run ended done;  *)
(* a handler inserts one text when it ends a run done and nothing           *)
(* otherwise, so a failed run never inserts.                                *)
RunEventsInOrder ==
    /\ \A i \in DOMAIN runs :
          /\ IsPrefix(runs[i].events, FullOrder(runs[i]))
          /\ ~Inserted(runs[i])
    /\ StartsARun =>
          LET run == runs[Len(runs)]
          IN  /\ run.needAuth = shouldAuthenticate
              /\ run.events = IF run.needAuth THEN <<>> ELSE <<"request">>
              /\ sentQuery.sent = ~run.needAuth
    /\ EndsARun =>
          /\ IsPrefix(lastCall.run.events, FullOrder(lastCall.run))
          /\ lastCall.run.status \in {"authFailed", "queryFailed", "formatFailed"}
                => ~Inserted(lastCall.run)
          /\ lastCall.run.status = "done"
                <=> lastCall.run.events = FullOrder(lastCall.run)
    /\ Len(inserted) = IF EndsARun /\ lastCall.run.status = "done" THEN 1 ELSE 0

(* C3, reached: a run that re-authorized has inserted its report while      *)
(* another run is waiting for its query.                                    *)
ReauthorizedRunInserted ==
    /\ lastCall.op = "queryResolve"
    /\ lastCall.run.events = <<"authorized", "request", "response", "insert">>
    /\ Len(inserted) = 1
    /\ Len(runs) = 1
    /\ runs[1].status = "querying"

(* C4: closing the form without Submit leaves the last-used options with    *)
(* the field values they had when the form was opened.                      *)
CancelRestoresOptions ==
    [][lastCall'.op = "cancel" =>
          heap'[previousReportOptions'] = modal.openedWith]_vars

(* C5: a submission stores the submitted options as the last-used ones; if  *)
(* they fail validation exactly one error with the violation text is shown  *)
(* and no run, query, insertion or credential change results; if they pass, *)
(* no error is shown and one run of the report is started with them.        *)
SubmitStoresAndRunsOnlyValid ==
    [][lastCall'.op = "submit" =>
          LET submitted == heap[modal.result]
          IN  /\ heap'[previousReportOptions'] = submitted
              /\ IF FailingFields(submitted) # <<>>
                 THEN /\ shown' = <<ErrorText(<<"Options set incorrectly:", LF>>
                                       \o JoinViolations(FailingFields(submitted)))>>
                      /\ runs' = runs
                      /\ ~sentQuery'.sent
                      /\ inserted' = <<>>
                      /\ oauth2Client' = oauth2Client
                 ELSE /\ shown' = <<>>
                      /\ Len(runs') = Len(runs) + 1
                      /\ SubSeq(runs', 1, Len(runs)) = runs
                      /\ runs'[Len(runs')].submitted = submitted
                      /\ runs'[Len(runs')].options = previousReportOptions'
                      /\ inserted' = <<>>]_vars

(* C5, reached: options with two failing fields were submitted while a run  *)
(* was pending, and one error was shown.                                    *)
InvalidSubmissionAfterARun ==
    /\ lastCall.op = "submit"
    /\ Len(shown) = 1
    /\ Len(FailingFields(heap[previousReportOptions])) = 2
    /\ runs # <<>>

(* C6: a trigger with no active view changes nothing; with an empty key     *)
(* path it shows exactly the misconfigured text, with a path that does not  *)
(* exist exactly the invalid-location error; in all three cases the form    *)
(* is not opened, options, credential and runs are unchanged, and no query  *)
(* or insertion is made.                                                    *)
RibbonGuardsStopTheFlow ==
    [][lastCall'.op = "ribbon" =>
          LET location == settings.oauth2KeysLocation
          IN  IF ~lastCall'.view
              THEN FlowStopped /\ shown' = <<>>
              ELSE IF location = NoPath
              THEN FlowStopped /\ shown' = <<MisconfiguredText>>
              ELSE IF Normalize(location) \notin ExistingPaths
              THEN FlowStopped
                   /\ shown' = <<ErrorText(<<"Invalid Location: \"">> \o location)>>
              ELSE modal'.open /\ shown' = <<>>]_vars

(* C6, reached: the ribbon was clicked with a key path that does not exist  *)
(* while a run was pending, and one error was shown.                        *)
InvalidLocationReported ==
    /\ lastCall.op = "ribbon"
    /\ lastCall.view
    /\ settings.oauth2KeysLocation = MissingPath
    /\ Len(shown) = 1
    /\ runs # <<>>

(* C7: the cached credential changes only on a successful authorization,    *)
(* which stores the returned credential whole; every other step leaves it.  *)
CredentialChangesOnlyOnAuthSuccess ==
    [][IF lastCall'.op = "authResolve"
       THEN /\ oauth2Client' = lastCall'.client
            /\ oauth2Client'.cached
            /\ oauth2Client'.credentials \in Credentials
       ELSE oauth2Client' = oauth2Client]_vars

(* C7, reached: the second pending run's authorization succeeded after the  *)
(* first run had already stored a credential.                               *)
CredentialReplaced ==
    /\ lastCall.op = "authResolve"
    /\ lastCall.index = 2
    /\ runs[1].needAuth
    /\ runs[1].status = "querying"
    /\ oauth2Client.credentials.expiry_date.defined

(* C8: validateOptions returns valid = TRUE with violations undefined       *)
(* exactly when all four fields are acceptable; otherwise valid = FALSE and *)
(* a trimmed message whose lines (the tab that indents the later lines      *)
(* aside) are "<field>: not set correctly." for exactly the failing fields, *)
(* in the order startDate, endDate, metrics, videoId.                       *)
ValidateOptionsReportsEachFailingField ==
    fnResult.set =>
        LET options == fnArg.value
            result == fnResult.value
        IN  /\ result.valid = (FailingFields(options) = <<>>)
            /\ result.valid => result.violations = Undefined
            /\ ~result.valid =>
                  /\ result.violations.defined
                  /\ EdgesNotBlank(result.violations.value)
                  /\ LET lines == Lines(result.violations.value)
                     IN  [k \in 1..Len(lines) |-> Trim(lines[k])]
                            = ViolationLinesFor(options)

(* C8, reached: validateOptions was applied to options of which the first,  *)
(* third and fourth field fail.                                             *)
ValidateOptionsSeesThreeFailures ==
    /\ fnResult.set
    /\ ~fnResult.value.valid
    /\ FailingFields(fnArg.value) = <<"startDate", "metrics", "videoId">>

ExpectedLine(data, k) ==
    LET columns == Len(data.columnHeaders)
        row == (k \div columns) + 1
        col == (k % columns) + 1
    IN  <<data.columnHeaders[col].name, "::", SP, ToString(data.rows[row][col])>>

(* C9: for a report whose rows all have as many cells as there are column   *)
(* headers, formatReport returns rows x columns lines, the k-th (from 0)    *)
(* being "<name of column k mod columns>:: <cell of row k div columns>",    *)
(* with no blank line at either end; zero rows give the empty string.       *)
FormatReportListsEveryCell ==
    (fnResult.set /\ WellFormed(fnArg.value)) =>
        LET data == fnArg.value
            result == fnResult.value
            count == Len(data.rows) * Len(data.columnHeaders)
        IN  /\ ~result.threw
            /\ EdgesNotBlank(result.text)
            /\ Len(data.rows) = 0 => result.text = <<>>
            /\ Lines(result.text) = [k \in 1..count |-> ExpectedLine(data, k - 1)]

(* C9, reached: formatReport was applied to two rows of two different       *)
(* columns and returned four lines.                                         *)
FormatReportSeesTwoByTwo ==
    /\ fnResult.set
    /\ WellFormed(fnArg.value)
    /\ Len(fnArg.value.rows) = 2
    /\ Len(fnArg.value.columnHeaders) = 2
    /\ fnArg.value.columnHeaders[1] # fnArg.value.columnHeaders[2]
    /\ Len(Lines(fnResult.value.text)) = 4

(* C10: the request a run gives to the query collaborator carries the       *)
(* options that were submitted for that run, which pass validateOptions.    *)
QueryCarriesSubmittedOptions ==
    sentQuery.sent =>
        LET run == IF lastCall.op = "authResolve" THEN runs[lastCall.index]
                   ELSE runs[Len(runs)]
            sentOptions == [startDate |-> sentQuery.startDate,
                            endDate |-> sentQuery.endDate,
                            metrics |-> sentQuery.metrics,
                            videoId |-> sentQuery.filters[2]]
        IN  /\ sentQuery = QueryRequest(run.submitted)
            /\ validateOptions(sentOptions).valid

====
